---- MODULE Spec2Model ----
(***************************************************************************)
(* Model of scripts/patch_circuit_synth.py: patch() locates the installed  *)
(* circuit_synth package and applies two exact-text substitutions, one to  *)
(* core/component.py and one to kicad/sch_gen/circuit_loader.py.           *)
(*                                                                         *)
(* File contents and texts are TLA+ strings; Len, SubSeq and \o act on     *)
(* them character by character.  The state is the filesystem below the     *)
(* library root, the position of the running patch() call, its local       *)
(* variable `content`, what it printed, and which branch each patch took.  *)
(*                                                                         *)
(* read_text and write_text are modelled as Python's text mode does them:  *)
(* reading translates "\r\n" and "\r" to "\n", writing stores "\n" as     *)
(* os.linesep (POSIX: "\n").  Either call may raise; nothing in patch()    *)
(* catches that, so the call ends there (pc = "raised").                   *)
(*                                                                         *)
(* branch[i] is one of                                                     *)
(*   "none"          patch i not reached in this call                      *)
(*   "absent"        exists() was false                                    *)
(*   "read_raised"   read_text raised                                      *)
(*   "patched"       the old text was found, replaced and stored           *)
(*   "write_raised"  the old text was found and write_text raised          *)
(*   "else"          patch 1: the old text was not found                   *)
(*   "already"       patch 2: the new block was found                      *)
(*   "mismatch"      patch 2: neither block was found                      *)
(***************************************************************************)
EXTENDS Integers, Sequences, FiniteSets, TLC

VARIABLES
    installed,  \* whether `import circuit_synth` succeeds in this environment
    fs,         \* path -> [exists, data]: the raw characters stored on disk
    pc,         \* position of the current patch() call
    content,    \* the local variable `content` (last text returned by read_text)
    stdout,     \* the lines printed by the current patch() call
    branch,     \* patch number -> the branch of the code the current call took
    writes,     \* the paths write_text stored to during the current call
    run,        \* number of the current invocation of the script
    fs0,        \* the filesystem as the current invocation found it
    prev        \* how the previous invocation ended: its pc and branch

vars == <<installed, fs, pc, content, stdout, branch, writes, run, fs0, prev>>

----------------------------------------------------------------------------
(* Bounds of the model. *)

\* Number of successive invocations of the script.
MaxRuns == 2

\* Number of chunks an initial file content is built from.
MaxChunks == 2

----------------------------------------------------------------------------
(* The literals of the source. *)

\* Path(circuit_synth.__file__).parent
cs_path == "site-packages/circuit_synth"

comp_py == cs_path \o "/core/component.py"

loader_py == cs_path \o "/kicad/sch_gen/circuit_loader.py"

old_pin == "\"pin_id\": pin_num,"

new_pin == "\"number\": pin_num,"

old_block ==
    "            # Enhanced pin identification - store the most specific identifier available\n"
    \o "            pin_identifier = None\n"
    \o "\n"
    \o "            # First check if name is available (most specific)\n"
    \o "            if \"name\" in pin_data and pin_data[\"name\"] != \"~\":\n"
    \o "                pin_identifier = pin_data[\"name\"]\n"
    \o "                logger.debug(\n"
    \o "                    f\"Using pin name '{pin_identifier}' for {comp_ref} in net {net_name}\"\n"
    \o "                )\n"
    \o "            # Then check for number\n"
    \o "            elif \"number\" in pin_data:\n"
    \o "                pin_identifier = str(pin_data[\"number\"])\n"
    \o "                logger.debug(\n"
    \o "                    f\"Using pin number '{pin_identifier}' for {comp_ref} in net {net_name}\"\n"
    \o "                )"

new_block ==
    "            # Enhanced pin identification - prioritize number for uniqueness\n"
    \o "            pin_identifier = None\n"
    \o "\n"
    \o "            # First check for number (most unique/specific)\n"
    \o "            if \"number\" in pin_data:\n"
    \o "                pin_identifier = str(pin_data[\"number\"])\n"
    \o "                logger.debug(\n"
    \o "                    f\"Using pin number '{pin_identifier}' for {comp_ref} in net {net_name}\"\n"
    \o "                )\n"
    \o "            # Then check if name is available\n"
    \o "            elif \"name\" in pin_data and pin_data[\"name\"] != \"~\":\n"
    \o "                pin_identifier = pin_data[\"name\"]\n"
    \o "                logger.debug(\n"
    \o "                    f\"Using pin name '{pin_identifier}' for {comp_ref} in net {net_name}\"\n"
    \o "                )"

\* The messages of the print calls.
MsgNotFound == "circuit-synth not found in the current environment."

MsgPatching(path) == "Patching " \o path \o "..."

MsgElse1 == "Patch 1 (component.py): Already patched or target content not found."

MsgAlready2 == "Patch 2 (circuit_loader.py): Already patched."

MsgMismatch2 == "Patch 2 (circuit_loader.py): Content mismatch, could not patch."

----------------------------------------------------------------------------
(* str: `in`, str.replace; Path: read_text, write_text. *)

\* Whether the characters of p stand in s from position j on.
MatchAt(s, p, j) ==
    /\ j >= 1
    /\ j + Len(p) - 1 <= Len(s)
    /\ \A k \in 1..Len(p) : SubSeq(s, j + k - 1, j + k - 1) = SubSeq(p, k, k)

\* The positions at which p occurs in s.
Occurrences(s, p) == {j \in 1..(Len(s) - Len(p) + 1) : MatchAt(s, p, j)}

\* `p in s`
Contains(s, p) == Occurrences(s, p) # {}

RECURSIVE ReplaceFrom(_, _, _, _, _)
\* s[i..] with the occurrences of old (occ: their positions, m: the length
\* of old), taken left to right without overlap, replaced by new.
ReplaceFrom(s, occ, m, new, i) ==
    LET js == {j \in occ : j >= i}
    IN  IF js = {}
        THEN SubSeq(s, i, Len(s))
        ELSE LET j == CHOOSE h \in js : \A g \in js : h <= g
             IN  SubSeq(s, i, j - 1) \o new \o ReplaceFrom(s, occ, m, new, j + m)

\* A faulty variant of Replace: only the first occurrence is replaced, as by
\* s.replace(old, new, 1).
ReplaceFirst(s, old, new) ==
    LET occ == Occurrences(s, old)
    IN  IF occ = {}
        THEN s
        ELSE LET j == CHOOSE h \in occ : \A g \in occ : h <= g
             IN  SubSeq(s, 1, j - 1) \o new \o SubSeq(s, j + Len(old), Len(s))

\* s.replace(old, new), old not empty
Replace(s, old, new) == ReplaceFrom(s, Occurrences(s, old), Len(old), new, 1)

\* os.linesep of the platform the script runs on (POSIX).
linesep == "\n"

\* Path.read_text(): text mode with universal newlines, "\r\n" and "\r" are
\* read as "\n".
ReadText(raw) == Replace(Replace(raw, "\r\n", "\n"), "\r", "\n")

\* Path.write_text(text): text mode, "\n" is stored as os.linesep.
WriteText(text) == Replace(text, "\n", linesep)

----------------------------------------------------------------------------
(* The filesystem below the library root. *)

\* circuit_synth.__file__
init_py == cs_path \o "/__init__.py"

Targets == {comp_py, loader_py}

Paths == {init_py, comp_py, loader_py, comp_py \o ".bak", loader_py \o ".bak"}

File(data) == [exists |-> TRUE, data |-> data]

Absent == [exists |-> FALSE, data |-> ""]

\* path.exists()
Exists(path) == fs[path].exists

\* A faulty variant of Written: the text read, not the replaced text, is stored.
WrittenUnreplaced(path, text) == [fs EXCEPT ![path] = File(fs[path].data)]

\* A faulty variant of Written: the file is copied to a backup before it is stored.
WrittenWithBackup(path, text) ==
    [fs EXCEPT ![path] = File(WriteText(text)), ![path \o ".bak"] = fs[path]]

\* The filesystem after path.write_text(text): the file is created or
\* truncated and holds the text.
Written(path, text) == [fs EXCEPT ![path] = File(WriteText(text))]

----------------------------------------------------------------------------
(* Initial file contents: chunks in a row, at most MaxChunks of them in    *)
(* the two target files together.  The chunks of a patch are its old text, *)
(* its new text, the first half of its old text, and its old text with     *)
(* CRLF line endings (a CRLF line end alone when the old text is one line).*)

Half(s) == SubSeq(s, 1, Len(s) \div 2)

ToCRLF(s) == Replace(s, "\n", "\r\n")

Chunks(old, new) ==
    {old, new, Half(old), IF Contains(old, "\n") THEN ToCRLF(old) ELSE "\r\n"}

RECURSIVE Concat(_)
Concat(q) == IF q = <<>> THEN "" ELSE Head(q) \o Concat(Tail(q))

Contents(old, new, n) ==
    {Concat(q) : q \in UNION {[1..k -> Chunks(old, new)] : k \in 0..n}}

FileStates(old, new, n) == {Absent} \cup {File(c) : c \in Contents(old, new, n)}

NoBranch == [i \in {1, 2} |-> "none"]

----------------------------------------------------------------------------
(* patch() *)

Init ==
    /\ installed \in BOOLEAN
    /\ \E n \in 0..MaxChunks :
       \E f1 \in FileStates(old_pin, new_pin, n),
          f2 \in FileStates(old_block, new_block, MaxChunks - n) :
          fs = [p \in Paths |->
                  IF p = init_py THEN File("")
                  ELSE IF p = comp_py THEN f1
                  ELSE IF p = loader_py THEN f2
                  ELSE Absent]
    /\ pc = "import"
    /\ content = ""
    /\ stdout = <<>>
    /\ branch = NoBranch
    /\ writes = <<>>
    /\ run = 1
    /\ fs0 = fs
    /\ prev = [pc |-> "none", branch |-> NoBranch]

\* A faulty variant of AfterImport: the except clause does not return.
AfterImportNoReturn == "patch1"

\* Where patch() goes on after the import: on to patch 1, or out by the
\* return of the except clause.
AfterImport == IF installed THEN "patch1" ELSE "done"

\* try: import circuit_synth / except ImportError: print, return
Import ==
    /\ pc = "import"
    /\ pc' = AfterImport
    /\ stdout' = IF installed THEN stdout ELSE Append(stdout, MsgNotFound)
    /\ UNCHANGED <<installed, fs, content, branch, writes, run, fs0, prev>>

\* A faulty variant of AfterPatch1: the component.py block ends by a return.
AfterPatch1Return == "done"

\* Where patch() goes on after the component.py block, whichever branch of
\* it was taken: the loader block follows it.
AfterPatch1 == "patch2"

\* The branch of patch 1 for the text read.
Decide1(text) == IF Contains(text, old_pin) THEN "patched" ELSE "else"

\* A faulty variant of Decide2: the new block is looked for first.
Decide2NewFirst(text) ==
    IF Contains(text, new_block) THEN "already"
    ELSE IF Contains(text, old_block) THEN "patched"
    ELSE "mismatch"

\* The branch of patch 2 for the text read.
Decide2(text) ==
    IF Contains(text, old_block) THEN "patched"
    ELSE IF Contains(text, new_block) THEN "already"
    ELSE "mismatch"

\* Patch 1: core/component.py.  read_text and write_text either succeed or
\* raise (OSError, UnicodeDecodeError), and the exception leaves patch().
Patch1 ==
    /\ pc = "patch1"
    /\ IF ~Exists(comp_py)
       THEN /\ branch' = [branch EXCEPT ![1] = "absent"]
            /\ pc' = AfterPatch1
            /\ UNCHANGED <<fs, content, stdout, writes>>
       ELSE \/ /\ branch' = [branch EXCEPT ![1] = "read_raised"]
               /\ pc' = "raised"
               /\ UNCHANGED <<fs, content, stdout, writes>>
            \/ LET text == ReadText(fs[comp_py].data)
               IN  IF Decide1(text) = "patched"
                   THEN /\ stdout' = Append(stdout, MsgPatching(comp_py))
                        /\ content' = Replace(text, old_pin, new_pin)
                        /\ \/ /\ branch' = [branch EXCEPT ![1] = "write_raised"]
                              /\ pc' = "raised"
                              /\ UNCHANGED <<fs, writes>>
                           \/ /\ fs' = Written(comp_py, content')
                              /\ writes' = Append(writes, comp_py)
                              /\ branch' = [branch EXCEPT ![1] = "patched"]
                              /\ pc' = AfterPatch1
                   ELSE /\ stdout' = Append(stdout, MsgElse1)
                        /\ content' = text
                        /\ branch' = [branch EXCEPT ![1] = "else"]
                        /\ pc' = AfterPatch1
                        /\ UNCHANGED <<fs, writes>>
    /\ UNCHANGED <<installed, run, fs0, prev>>

\* Patch 2: kicad/sch_gen/circuit_loader.py.
Patch2 ==
    /\ pc = "patch2"
    /\ IF ~Exists(loader_py)
       THEN /\ branch' = [branch EXCEPT ![2] = "absent"]
            /\ pc' = "done"
            /\ UNCHANGED <<fs, content, stdout, writes>>
       ELSE \/ /\ branch' = [branch EXCEPT ![2] = "read_raised"]
               /\ pc' = "raised"
               /\ UNCHANGED <<fs, content, stdout, writes>>
            \/ LET text == ReadText(fs[loader_py].data)
                   taken == Decide2(text)
               IN  IF taken = "patched"
                   THEN /\ stdout' = Append(stdout, MsgPatching(loader_py))
                        /\ content' = Replace(text, old_block, new_block)
                        /\ \/ /\ branch' = [branch EXCEPT ![2] = "write_raised"]
                              /\ pc' = "raised"
                              /\ UNCHANGED <<fs, writes>>
                           \/ /\ fs' = Written(loader_py, content')
                              /\ writes' = Append(writes, loader_py)
                              /\ branch' = [branch EXCEPT ![2] = "patched"]
                              /\ pc' = "done"
                   ELSE /\ stdout' = Append(stdout, IF taken = "already"
                                                    THEN MsgAlready2
                                                    ELSE MsgMismatch2)
                        /\ content' = text
                        /\ branch' = [branch EXCEPT ![2] = taken]
                        /\ pc' = "done"
                        /\ UNCHANGED <<fs, writes>>
    /\ UNCHANGED <<installed, run, fs0, prev>>

\* if __name__ == "__main__": patch() -- the script is invoked again.
Rerun ==
    /\ pc \in {"done", "raised"}
    /\ run < MaxRuns
    /\ run' = run + 1
    /\ pc' = "import"
    /\ content' = ""
    /\ stdout' = <<>>
    /\ branch' = NoBranch
    /\ writes' = <<>>
    /\ fs0' = fs
    /\ prev' = [pc |-> pc, branch |-> branch]
    /\ UNCHANGED <<installed, fs>>

Next == Import \/ Patch1 \/ Patch2 \/ Rerun

Spec == Init /\ [][Next]_vars

----------------------------------------------------------------------------
(* The vocabulary of the claims: the four outcomes, read off the branch a  *)
(* patch took, and what each printed line tells about the outcome.         *)

PathOf(i) == IF i = 1 THEN comp_py ELSE loader_py

FileName(i) == IF i = 1 THEN "component.py" ELSE "circuit_loader.py"

Old(i) == IF i = 1 THEN old_pin ELSE old_block

New(i) == IF i = 1 THEN new_pin ELSE new_block

\* The raw characters patch i found on disk, and the text read_text made
\* of them.
Raw0(i) == fs0[PathOf(i)].data

Text0(i) == ReadText(Raw0(i))

\* Patch i ran to the end of its block (nothing raised).
Decided(i) == branch[i] \in {"absent", "patched", "else", "already", "mismatch"}

\* The else branch of patch 1 covers two outcomes; the text tells them apart.
Outcome(i) ==
    IF branch[i] = "absent" THEN "FileMissing"
    ELSE IF branch[i] = "patched" THEN "Applied"
    ELSE IF branch[i] = "already" THEN "AlreadyPatched"
    ELSE IF branch[i] = "mismatch" THEN "TargetMissing"
    ELSE IF branch[i] = "else"
         THEN IF Contains(Text0(i), New(i)) THEN "AlreadyPatched" ELSE "TargetMissing"
    ELSE "none"

\* The outcomes a printed line is printed for.
Says(line) ==
    IF line \in {MsgPatching(comp_py), MsgPatching(loader_py)} THEN {"Applied"}
    ELSE IF line = MsgElse1 THEN {"AlreadyPatched", "TargetMissing"}
    ELSE IF line = MsgAlready2 THEN {"AlreadyPatched"}
    ELSE IF line = MsgMismatch2 THEN {"TargetMissing"}
    ELSE {}

Wrote(path) == \E k \in 1..Len(writes) : writes[k] = path

----------------------------------------------------------------------------
(* The claims. *)

\* C1 (idempotence): a patch whose file holds the old text ends Applied;
\* in the invocation after one in which patch i ended Applied, patch i ends
\* AlreadyPatched, stores nothing, and the file stays as that invocation
\* found it.
C1_Idempotence ==
    \A i \in {1, 2} :
        /\ (Decided(i) /\ fs0[PathOf(i)].exists /\ Contains(Raw0(i), Old(i)))
              => Outcome(i) = "Applied"
        /\ (run >= 2 /\ prev.branch[i] = "patched")
              => /\ fs[PathOf(i)] = fs0[PathOf(i)]
                 /\ ~Wrote(PathOf(i))
                 /\ branch[i] \notin {"patched", "write_raised"}
                 /\ Decided(i) => Outcome(i) = "AlreadyPatched"

C1_Witness ==
    /\ run = 2
    /\ pc = "done"
    /\ prev.branch = [i \in {1, 2} |-> "patched"]
    /\ branch[1] = "else"
    /\ branch[2] = "already"
    /\ fs = fs0

\* C2 (exactness), as claimed: when the file of patch i exists and holds
\* neither the old nor the new text verbatim, the file stays unchanged and a
\* line naming the file is printed that stands for TargetMissing alone.
C2_Exactness ==
    \A i \in {1, 2} :
        (/\ Decided(i)
         /\ fs0[PathOf(i)].exists
         /\ ~Contains(Raw0(i), Old(i))
         /\ ~Contains(Raw0(i), New(i)))
        => /\ fs[PathOf(i)] = fs0[PathOf(i)]
           /\ \E k \in 1..Len(stdout) :
                 /\ Contains(stdout[k], FileName(i))
                 /\ Says(stdout[k]) = {"TargetMissing"}

\* C3 (non-interference): patch 1 is processed before patch 2; the step of
\* one patch leaves the other patch's file alone; once patch 1 has an
\* outcome, whichever of the four, control is at patch 2 or patch 2 has been
\* processed; control reaches patch 2 only with an outcome of patch 1; a
\* call that returns with the library present has given patch 2 one of the
\* four outcomes.
C3_NonInterference ==
    /\ [](branch[2] # "none" => branch[1] # "none")
    /\ [][/\ pc = "patch1" => fs'[loader_py] = fs[loader_py]
          /\ pc = "patch2" => fs'[comp_py] = fs[comp_py]]_vars
    /\ [](Outcome(1) # "none" => (pc = "patch2" \/ branch[2] # "none"))
    /\ [](pc = "patch2" => Outcome(1) # "none")
    /\ []((pc = "done" /\ installed) => Outcome(2) # "none")

C3_Witness ==
    /\ pc = "done"
    /\ Outcome(1) = "FileMissing"
    /\ Outcome(2) = "Applied"
    /\ fs[comp_py] = fs0[comp_py]

\* C4 (missing library): when the import fails, nothing is ever stored, the
\* call never raises, and it returns having printed the one line that tells
\* the library is absent.
C4_MissingLibrary ==
    ~installed =>
        /\ fs = fs0
        /\ writes = <<>>
        /\ branch = NoBranch
        /\ pc \in {"import", "done"}
        /\ pc = "done" => stdout = <<MsgNotFound>>

C4_Witness ==
    /\ ~installed
    /\ pc = "done"
    /\ run = 2
    /\ fs[comp_py].exists
    /\ Contains(fs[comp_py].data, old_pin)

\* C5, as claimed: a call in which reading or storing component.py raised
\* has still attempted the circuit_loader.py patch when it ends.
C5_FaultDoesNotAbort ==
    (pc \in {"done", "raised"} /\ branch[1] \in {"read_raised", "write_raised"})
        => branch[2] # "none"

\* C6, as claimed: a call that returns with the library present has printed
\* exactly two lines, the i-th standing for the outcome of patch i alone.
C6_OneLinePerPatch ==
    (pc = "done" /\ installed)
        => /\ Len(stdout) = 2
           /\ \A i \in {1, 2} : Says(stdout[i]) = {Outcome(i)}

\* C7 (filesystem contract): no path other than the two targets ever
\* changes, no file is created or removed, only the two targets are stored
\* to, and a target is stored to or differs from what the call found only
\* when its patch ended Applied.
C7_Filesystem ==
    /\ \A p \in Paths \ Targets : fs[p] = fs0[p]
    /\ \A p \in Paths : fs[p].exists = fs0[p].exists
    /\ \A k \in 1..Len(writes) : writes[k] \in Targets
    /\ \A i \in {1, 2} :
          (Wrote(PathOf(i)) \/ fs[PathOf(i)] # fs0[PathOf(i)])
              => Outcome(i) = "Applied"

C7_Witness ==
    /\ pc = "done"
    /\ Outcome(1) = "Applied"
    /\ Outcome(2) = "TargetMissing"
    /\ writes = <<comp_py>>
    /\ fs[loader_py] = fs0[loader_py]

\* C8, as claimed: when the file of patch i holds the old text, the patch
\* ends Applied and the file then holds what it held with every occurrence
\* of the old text replaced by the new text and every other character kept.
C8_ReplaceAll ==
    \A i \in {1, 2} :
        (Decided(i) /\ fs0[PathOf(i)].exists /\ Contains(Raw0(i), Old(i)))
            => /\ Outcome(i) = "Applied"
               /\ fs[PathOf(i)].data = Replace(Raw0(i), Old(i), New(i))

\* C9 (precedence): when the text read holds both the old and the new
\* text, the patch ends Applied and the file is stored with the old text
\* replaced; a patch ends AlreadyPatched, and patch 2 prints its "Already
\* patched" line, only when the old text is absent and the new one present;
\* the else line of patch 1 is printed only when the old text is absent.
C9_OldFirst ==
    \A i \in {1, 2} :
        Decided(i) =>
            /\ (/\ fs0[PathOf(i)].exists
                /\ Contains(Text0(i), Old(i))
                /\ Contains(Text0(i), New(i)))
                  => /\ Outcome(i) = "Applied"
                     /\ Wrote(PathOf(i))
                     /\ fs[PathOf(i)].data
                           = WriteText(Replace(Text0(i), Old(i), New(i)))
            /\ (\/ Outcome(i) = "AlreadyPatched"
                \/ (i = 2 /\ \E k \in 1..Len(stdout) : stdout[k] = MsgAlready2))
                  => /\ ~Contains(Text0(i), Old(i))
                     /\ Contains(Text0(i), New(i))
            /\ (i = 1 /\ \E k \in 1..Len(stdout) : stdout[k] = MsgElse1)
                  => ~Contains(Text0(i), Old(i))

C9_Witness ==
    /\ pc = "done"
    /\ Raw0(2) = new_block \o old_block
    /\ Outcome(2) = "Applied"
    /\ fs[loader_py].data = new_block \o new_block

\* C10 (no fresh occurrence): when a call returns with the library present,
\* no existing target file holds its old text, neither as stored nor as
\* read_text reads it; and in a call after one that returned, no patch finds
\* the old text (it neither ends Applied nor gets as far as storing).
C10_NoOldTextLeft ==
    \A i \in {1, 2} :
        /\ (pc = "done" /\ installed /\ fs[PathOf(i)].exists)
              => /\ ~Contains(fs[PathOf(i)].data, Old(i))
                 /\ ~Contains(ReadText(fs[PathOf(i)].data), Old(i))
        /\ (run >= 2 /\ prev.pc = "done")
              => branch[i] \notin {"patched", "write_raised"}

C10_Witness ==
    /\ pc = "done"
    /\ Outcome(1) = "Applied"
    /\ Raw0(1) = Half(old_pin) \o old_pin
    /\ fs[comp_py].data = Half(old_pin) \o new_pin

====
